---- MODULE Spec2Model ----
(***************************************************************************)
(* StyleMirror API gateway (src/src/index.ts): a Cloudflare Worker that    *)
(* routes a request, rate-limits it against a KV counter store, forwards   *)
(* it to an upstream API and decorates the response with CORS headers.     *)
(*                                                                         *)
(* Every invocation of the worker's fetch handler is one element of Reqs.  *)
(* An invocation runs synchronously up to its next await, so one action of *)
(* the model is one such stretch of the handler: Fetch (entry up to        *)
(* kv.get), KvGet (the read and what follows up to kv.put), KvPut (the     *)
(* write and the forwarder up to its outbound fetch), Upstream (the reply  *)
(* and the rest of the handler).                                           *)
(***************************************************************************)
EXTENDS Integers, Sequences, FiniteSets, TLC

VARIABLES
    now,        \* unix time in seconds, Math.floor(Date.now() / 1000)
    kv,         \* env.RATE_LIMIT_KV: key -> [value, expiration]
    pc,         \* where each invocation of fetch stands
    req,        \* fetch's request: method, path, origin, clientId
    windowKey,  \* checkRateLimit's windowKey
    current,    \* checkRateLimit's current
    rateCheck,  \* fetch's rateCheck, what checkRateLimit returned
    resp,       \* the response an invocation returned
    trace,      \* what an invocation did: store reads and writes, outbound fetches
    stats,      \* per policy, client and window: the calls admitted
    parallel,   \* how many invocations the runtime keeps alive together
    world,      \* what the handler meets: its env, the requests clients send, the
                \* upstream replies
    callsLeft   \* rate checks still to be answered before the clients stop

vars == <<now, kv, pc, req, windowKey, current, rateCheck, resp, trace, stats,
          parallel, world, callsLeft>>

----------------------------------------------------------------------------
(* Bounds of the model. *)

\* rate checks answered in a run of overlapping invocations
MaxCalls == 3
\* rate checks answered in a run of one client's requests of every kind
MaxChecks == 2
\* rate checks answered beyond the policy's limit in a run from an empty store
MaxExtra == 2

\* the invocations of the handler the runtime can keep alive
Reqs == {1, 2}

\* the times the clock shows: 1800 is in window 0, 3600 and 5400 in window 1
Times == {1800, 3600, 5400}

\* a header that is absent: headers.get(name) is null
Null == "<null>"

\* a key that is absent or expired: kv.get(key) is null. The handler uses the value
\* only under ||, which takes null and the empty string alike
NullValue == <<>>

----------------------------------------------------------------------------
(* Configuration. *)

RATE_LIMITS ==
    [search |-> [requests |-> 100, window |-> 3600],
     vision |-> [requests |-> 50,  window |-> 3600],
     n8n    |-> [requests |-> 200, window |-> 3600]]

\* a value of env.ALLOWED_ORIGINS: the comma-separated list as its sequence of
\* tokens (an origin, a comma or a blank), beside the entries it configures
AllowList(raw, entries) == [raw |-> raw, entries |-> entries]

DefaultAllowList ==
    AllowList(<<"https://a.com", ",", " ", "https://b.com">>,
              <<"https://a.com", "https://b.com">>)

\* the deployments' allow-lists: two origins, two origins with blanks around them,
\* the wildcard, the wildcard after an origin, a list ending in a comma
AllowLists ==
    {DefaultAllowList,
     AllowList(<<" ", "https://b.com", " ", ",", "https://a.com">>,
               <<"https://b.com", "https://a.com">>),
     AllowList(<<"*">>, <<"*">>),
     AllowList(<<"https://a.com", ",", "*">>, <<"https://a.com", "*">>),
     AllowList(<<"https://a.com", ",">>, <<"https://a.com", "">>)}

\* env.ALLOWED_ORIGINS of the deployment
ALLOWED_ORIGINS == world.allowed.raw

----------------------------------------------------------------------------
(* Strings. *)

Digits == <<"0", "1", "2", "3", "4", "5", "6", "7", "8", "9">>

\* String(n) of a non-negative integer: its decimal digits
RECURSIVE String(_)
String(n) ==
    IF n < 10 THEN <<Digits[n + 1]>>
    ELSE String(n \div 10) \o <<Digits[(n % 10) + 1]>>

DigitValue(c) == CHOOSE d \in 0..9 : Digits[d + 1] = c

IsDigit(c) == \E d \in 0..9 : Digits[d + 1] = c

\* parseInt(s): the value of the leading decimal digits of s, "NaN" without any
RECURSIVE parseIntFrom(_, _, _)
parseIntFrom(s, i, acc) ==
    IF i > Len(s) \/ ~IsDigit(s[i]) THEN acc
    ELSE parseIntFrom(s, i + 1, acc * 10 + DigitValue(s[i]))

parseInt(s) ==
    IF Len(s) = 0 \/ ~IsDigit(s[1]) THEN "NaN" ELSE parseIntFrom(s, 1, 0)

\* a || b on a header value: b when a is null or empty
OrElse(a, b) == IF a = Null \/ a = "" THEN b ELSE a

\* a || b on a stored value: b when a is null or empty
OrElseValue(a, b) == IF a = NullValue THEN b ELSE a

\* s.startsWith(p) on token sequences
StartsWith(s, p) == Len(s) >= Len(p) /\ SubSeq(s, 1, Len(p)) = p

\* the first index at which p occurs in s, 0 when it does not
IndexOf(s, p) ==
    LET hits == {i \in 1..(Len(s) - Len(p) + 1) : SubSeq(s, i, i + Len(p) - 1) = p}
    IN IF hits = {} THEN 0 ELSE CHOOSE i \in hits : \A j \in hits : i <= j

\* s.replace(p, q): the first occurrence of p replaced by q
Replace(s, p, q) ==
    LET i == IndexOf(s, p)
    IN IF i = 0 THEN s
       ELSE SubSeq(s, 1, i - 1) \o q \o SubSeq(s, i + Len(p), Len(s))

\* s.split(','): the pieces of s between commas
RECURSIVE Split(_)
Split(s) ==
    LET i == IndexOf(s, <<",">>)
    IN IF i = 0 THEN <<s>>
       ELSE <<SubSeq(s, 1, i - 1)>> \o Split(SubSeq(s, i + 1, Len(s)))

\* o.trim(): o without leading and trailing blanks
RECURSIVE Trim(_)
Trim(o) ==
    IF o # <<>> /\ Head(o) = " " THEN Trim(Tail(o))
    ELSE IF o # <<>> /\ o[Len(o)] = " " THEN Trim(SubSeq(o, 1, Len(o) - 1))
    ELSE o

\* the string a token sequence spells
RECURSIVE Join(_)
Join(o) == IF o = <<>> THEN "" ELSE Head(o) \o Join(Tail(o))

Includes(list, x) == \E i \in 1..Len(list) : list[i] = x

----------------------------------------------------------------------------
(* corsHeaders, checkRateLimit's pieces, getClientId. *)

ACAO == "Access-Control-Allow-Origin"

Allowed(allowedOrigins) ==
    LET pieces == Split(allowedOrigins)
    IN [i \in 1..Len(pieces) |-> Join(Trim(pieces[i]))]

corsHeadersEcho(origin, allowedOrigins) ==
    (ACAO :> origin)
       @@ ("Access-Control-Allow-Methods" :> "GET, POST, OPTIONS")
       @@ ("Access-Control-Allow-Headers" :> "Content-Type, Authorization, X-User-ID")
       @@ ("Access-Control-Max-Age" :> "86400")

corsHeaders(origin, allowedOrigins) ==
    LET allowed == Allowed(allowedOrigins)
        isAllowed == Includes(allowed, "*") \/ Includes(allowed, origin)
    IN (ACAO :> (IF isAllowed THEN origin ELSE allowed[1]))
       @@ ("Access-Control-Allow-Methods" :> "GET, POST, OPTIONS")
       @@ ("Access-Control-Allow-Headers" :> "Content-Type, Authorization, X-User-ID")
       @@ ("Access-Control-Max-Age" :> "86400")

WindowIndexRounded(limit, t) == (t + limit.window \div 2) \div limit.window

\* Math.floor(now / limit.window)
WindowIndex(limit, t) == t \div limit.window

\* `${key}:${Math.floor(now / limit.window)}`
WindowKeyOf(key, limit, t) == key \o ":" \o ToString(WindowIndex(limit, t))

\* kv.get(key) at time t: the value of a live entry, null otherwise
KvGetValue(store, key, t) ==
    IF key \in DOMAIN store /\ store[key].expiration > t
    THEN store[key].value ELSE NullValue

KvPutValueLost(store, key, value, ttl, t) == store

\* kv.put(key, value, {expirationTtl}) at time t
KvPutValue(store, key, value, ttl, t) ==
    [k \in DOMAIN store \cup {key} |->
        IF k = key THEN [value |-> value, expiration |-> t + ttl] ELSE store[k]]

ReadCurrentFresh(store, key, t) == 0

\* parseInt(await kv.get(windowKey) || '0')
ReadCurrent(store, key, t) == parseInt(OrElseValue(KvGetValue(store, key, t), <<"0">>))

OverLimitStrict(cur, limit) == cur > limit.requests

\* current >= limit.requests
OverLimit(cur, limit) == cur >= limit.requests

NextValueSame(cur) == String(cur)

NextValueSkipping(cur) == String(cur + 2)

\* String(current + 1)
NextValue(cur) == String(cur + 1)

\* checkRateLimit's two results
Rejected == [allowed |-> FALSE, remaining |-> 0]

Admitted(cur, limit) == [allowed |-> TRUE, remaining |-> limit.requests - cur - 1]

getClientIdIpFirst(headers) ==
    OrElse(headers.ip, OrElse(headers.userId, "anonymous"))

getClientId(headers) ==
    OrElse(headers.userId, OrElse(headers.ip, "anonymous"))

----------------------------------------------------------------------------
(* Routing. *)

\* a path as its tokens: "/" and the segments between
PathHealth     == <<"/", "health">>
PathRoot       == <<"/">>
PathSearch     == <<"/", "api", "/", "search">>
PathVision     == <<"/", "api", "/", "vision">>
PathPerplexity == <<"/", "api", "/", "perplexity">>
PrefixN8n      == <<"/", "api", "/", "n8n", "/">>

\* the branch of fetch's if-chain a path takes
PreflightSkipped(method) == FALSE

\* request.method === 'OPTIONS'
IsPreflight(method) == method = "OPTIONS"

RouteQuotaEverywhere(path) ==
    IF path = PathHealth \/ path = PathRoot THEN "search"
    ELSE IF path = PathSearch THEN "search"
    ELSE IF path = PathVision THEN "vision"
    ELSE IF path = PathPerplexity THEN "perplexity"
    ELSE "n8n"

RouteByPrefix(path) ==
    IF path = PathHealth \/ path = PathRoot THEN "health"
    ELSE IF path = PathSearch THEN "search"
    ELSE IF path = PathVision THEN "vision"
    ELSE IF path = PathPerplexity THEN "perplexity"
    ELSE IF StartsWith(path, <<"/", "api", "/", "n8n">>) THEN "n8n"
    ELSE "notfound"

Route(path) ==
    IF path = PathHealth \/ path = PathRoot THEN "health"
    ELSE IF path = PathSearch THEN "search"
    ELSE IF path = PathVision THEN "vision"
    ELSE IF path = PathPerplexity THEN "perplexity"
    ELSE IF StartsWith(path, PrefixN8n) THEN "n8n"
    ELSE "notfound"

\* the RATE_LIMITS entry and key prefix a rate-limited branch passes to checkRateLimit
PolicyOf(route) == IF route = "perplexity" THEN "search" ELSE route

LimiterKeyShared(route, clientId) == PolicyOf(route)

LimiterKeyPerRoute(route, clientId) == route \o ":" \o clientId

\* `search:${clientId}`, `vision:${clientId}`, `n8n:${clientId}`
LimiterKey(route, clientId) == PolicyOf(route) \o ":" \o clientId

Limited(route) == route \in {"search", "vision", "perplexity", "n8n"}

\* path.replace('/api/n8n', '/webhook')
n8nPath(path) == Replace(path, <<"/", "api", "/", "n8n">>, <<"/", "webhook">>)

----------------------------------------------------------------------------
(* Responses. *)

ContentType == "Content-Type"

JsonType == ContentType :> "application/json"

\* new Response(body, {status, headers})
Response(body, status, headers) ==
    [status |-> status, body |-> body, headers |-> headers]

\* the preflight answer: new Response(null, {headers: corsHeaders(...)})
Preflight(origin) == Response(Null, 200, corsHeaders(origin, ALLOWED_ORIGINS))

RateLimitResponseBare(route, origin) ==
    Response("{\"error\":\"Rate limit exceeded\"}", 429, JsonType)

\* the rejection each rate-limited branch returns
RateLimitResponse(route, origin) ==
    Response("{\"error\":\"Rate limit exceeded\"}", 429,
             (IF route = "search" THEN "X-RateLimit-Remaining" :> "0" ELSE <<>>)
             @@ JsonType @@ corsHeaders(origin, ALLOWED_ORIGINS))

ErrorResponseOk(message, origin) ==
    Response("{\"error\":\"Internal server error\"}", 200,
             JsonType @@ corsHeaders(origin, ALLOWED_ORIGINS))

\* the answer of the catch block
ErrorResponse(message, origin) ==
    Response("{\"error\":\"Internal server error\",\"message\":\"" \o message \o "\"}",
             500, JsonType @@ corsHeaders(origin, ALLOWED_ORIGINS))

DecorateNothing(response, origin) == response

\* the end of the try block: the response with the CORS headers set over its own
Decorate(response, origin) ==
    Response(response.body, response.status,
             corsHeaders(origin, ALLOWED_ORIGINS) @@ response.headers)

handleHealth ==
    Response("{\"status\":\"ok\",\"service\":\"stylemirror-api-gateway\"}", 200, JsonType)

NotFound == Response("{\"error\":\"Not found\"}", 404, JsonType)

\* what a failing step throws: the try block ends and the catch block answers
Throw(message) == [kind |-> "throw", message |-> message]

Return(response) == [kind |-> "return", response |-> response]

\* a forwarder going on to its outbound fetch
Forward == [kind |-> "forward"]

SettleBare(outcome, origin) ==
    IF outcome.kind = "throw"
    THEN Response("{\"error\":\"Internal server error\"}", 500, JsonType)
    ELSE Decorate(outcome.response, origin)

\* fetch's try/catch around a step's outcome
Settle(outcome, origin) ==
    IF outcome.kind = "throw" THEN ErrorResponse(outcome.message, origin)
    ELSE Decorate(outcome.response, origin)

----------------------------------------------------------------------------
(* Forwarders. *)

\* what a request carries for its forwarder: the q parameter or the JSON body with
\* its required field ("ok"), without it ("missing"), or a body that is no JSON
Payloads == {"ok", "missing", "garbage"}

\* the part of a forwarder before its outbound fetch: Forward, or what it
\* returns or throws without calling upstream
Validate(route, method, payload) ==
    CASE route = "search" ->
            IF payload = "missing"
            THEN Return(Response("{\"error\":\"Missing query parameter\"}", 400, JsonType))
            ELSE Forward
      [] route \in {"vision", "perplexity"} ->
            IF method # "POST"
            THEN Return(Response("{\"error\":\"Method not allowed\"}", 405, JsonType))
            ELSE IF payload = "garbage" THEN Throw("Unexpected token")
            ELSE IF payload = "missing"
            THEN Return(Response(IF route = "vision" THEN "{\"error\":\"Missing image\"}"
                                 ELSE "{\"error\":\"Missing query\"}", 400, JsonType))
            ELSE Forward
      [] route = "n8n" -> Forward

\* the body request.json() is called on: handleVision and handlePerplexity call it
\* once the method is POST, the other forwarders never
Parsed(route, method, payload) ==
    IF route \in {"vision", "perplexity"} /\ method = "POST" THEN payload ELSE ""

\* env.N8N_BASE_URL
N8N_BASE_URL == <<"https://n8n.example.com">>

\* the URL a forwarder fetches, as tokens: the origin and the path
Target(route, path) ==
    CASE route = "search" -> <<"https://serpapi.com", "/", "search.json">>
      [] route = "vision" ->
            <<"https://openrouter.ai", "/", "api", "/", "v1", "/", "chat", "/", "completions">>
      [] route = "perplexity" -> <<"https://api.perplexity.ai", "/", "chat", "/", "completions">>
      [] route = "n8n" -> N8N_BASE_URL \o n8nPath(path)

\* what an upstream sends back, or the outbound fetch failing
NetworkError == [status |-> 0, text |-> "network error"]

UpstreamReplies ==
    {[status |-> 200, text |-> "{ \"results\": [] }"],
     [status |-> 500, text |-> "{\"error\":\"upstream\"}"],
     [status |-> 502, text |-> "<html>Bad Gateway</html>"],
     [status |-> 204, text |-> ""]}

\* JSON.stringify(await response.json()): the body parsed and written again,
\* "SyntaxError" when the body is no JSON
Reserialize(text) ==
    CASE text = "{ \"results\": [] }" -> "{\"results\":[]}"
      [] text = "{\"error\":\"upstream\"}" -> "{\"error\":\"upstream\"}"
      [] OTHER -> "SyntaxError"

\* the statuses new Response accepts only without a body
NullBodyStatus(status) == status \in {101, 204, 205, 304}

\* the part of a forwarder after its outbound fetch
Forwarded(route, reply) ==
    IF reply = NetworkError THEN Throw("fetch failed")
    ELSE IF route = "n8n"
    THEN IF NullBodyStatus(reply.status)
         THEN Throw("Response with null body status cannot have body")
         ELSE Return(Response(reply.text, reply.status, JsonType))
    ELSE IF Reserialize(reply.text) = "SyntaxError" THEN Throw("Unexpected token")
    ELSE Return(Response(Reserialize(reply.text), 200, JsonType))

----------------------------------------------------------------------------
(* The requests that arrive. *)

Methods == {"GET", "POST", "OPTIONS"}

Paths ==
    {PathHealth, PathRoot, PathSearch, PathVision, PathPerplexity,
     PrefixN8n \o <<"hook">>, <<"/", "nope">>}

\* the Origin header
Origins == {Null, "https://a.com", "https://evil.com"}

\* the X-User-ID and CF-Connecting-IP headers
UserIds == {Null, "u1"}
Ips == {Null, "ip1"}

\* the requests of one client: its identity headers and its Origin
Client(userId, ip, origin) == [userId |-> userId, ip |-> ip, origin |-> origin]

Clients ==
    {Client("u1", Null, o) : o \in Origins} \cup {Client(u, i, Null) : u \in UserIds, i \in Ips}

\* two clients whose identities differ by what looks like a window index
U1 == Client("u1", Null, Null)
U10 == Client("u1:0", Null, Null)

AllReplies == UpstreamReplies \cup {NetworkError}

OkReply == CHOOSE reply \in UpstreamReplies : reply.status = 200

----------------------------------------------------------------------------
(* State. *)

NoReq ==
    [method |-> "", path |-> <<>>, origin |-> "", clientId |-> "",
     headers |-> [userId |-> Null, ip |-> Null, origin |-> Null]]
NoResp == [status |-> 0, body |-> "", headers |-> <<>>]
NoCheck == [allowed |-> FALSE, remaining |-> -1]
NoReply == [status |-> -1, text |-> ""]

\* an invocation that has done nothing yet. index is the window index its rate
\* check computed, timely whether its store read fell inside that window, racing
\* whether it stood between its read and its write together with another, target
\* the URL of its outbound fetch, parsed the body its request.json() met
NoTrace ==
    [reads |-> 0, writes |-> 0, fetches |-> 0, failed |-> FALSE, reply |-> NoReply,
     index |-> -1, timely |-> FALSE, racing |-> FALSE, target |-> <<>>, parsed |-> ""]

\* the budget a rate check draws on: a policy, a client and a window
Bucket(policy, clientId, index) == <<policy, clientId, index>>

BucketOf(r) == Bucket(PolicyOf(Route(req[r].path)), req[r].clientId, trace[r].index)

LimitOf(bucket) == RATE_LIMITS[bucket[1]].requests

\* the counts kept of a bucket: the calls admitted on a read inside the window
\* (admitted), those of them that raced (raced), the calls admitted on a read after
\* the window's end (late), and the routes the admitted calls came by
NoStats == [admitted |-> 0, raced |-> 0, late |-> 0, routes |-> {}]

StatsOf(bucket) == IF bucket \in DOMAIN stats THEN stats[bucket] ELSE NoStats

SetStats(bucket, value) ==
    [b \in DOMAIN stats \cup {bucket} |-> IF b = bucket THEN value ELSE stats[b]]

\* the invocations between their store read and their store write on a key
InFlight(key) == {o \in Reqs : pc[o] = "put" /\ windowKey[o] = key}

\* an invocation ends with a response
Finish(r, response) ==
    /\ resp' = [resp EXCEPT ![r] = response]
    /\ pc' = [pc EXCEPT ![r] = "done"]

InitRequests ==
    /\ pc = [r \in Reqs |-> "idle"]
    /\ req = [r \in Reqs |-> NoReq]
    /\ windowKey = [r \in Reqs |-> ""]
    /\ current = [r \in Reqs |-> 0]
    /\ rateCheck = [r \in Reqs |-> NoCheck]
    /\ resp = [r \in Reqs |-> NoResp]
    /\ trace = [r \in Reqs |-> NoTrace]

\* the store after n calls of a client under a policy, all made at time t without
\* overlapping, and the counts kept of them
WarmStore(policy, clientId, n, t) ==
    LET limit == RATE_LIMITS[policy]
    IN IF n = 0 THEN <<>>
       ELSE KvPutValue(<<>>, WindowKeyOf(policy \o ":" \o clientId, limit, t),
                       String(n), limit.window, t)

WarmStats(policy, clientId, n, t) ==
    IF n = 0 THEN <<>>
    ELSE Bucket(policy, clientId, WindowIndex(RATE_LIMITS[policy], t))
            :> [NoStats EXCEPT !.admitted = n, !.routes = {policy}]

\* how far below its limit a warm counter stands
Shortfalls == {0, 1, 2}

\* one client sends every kind of request, one invocation at a time, to a store in
\* which none or one of its budgets is used up
InitHandler ==
    /\ now = 1800
    /\ parallel = 1
    /\ callsLeft = MaxChecks
    /\ InitRequests
    /\ \E c \in Clients :
         /\ world = [methods |-> Methods, paths |-> Paths, clients |-> {c},
                     payloads |-> Payloads, replies |-> AllReplies, store |-> {"up", "down"},
                allowed |-> DefaultAllowList]
         /\ \/ kv = <<>> /\ stats = <<>>
            \/ \E p \in DOMAIN RATE_LIMITS :
                 /\ kv = WarmStore(p, getClientId(c), RATE_LIMITS[p].requests, now)
                 /\ stats = WarmStats(p, getClientId(c), RATE_LIMITS[p].requests, now)

\* overlapping invocations of the routes of one policy by one client, to a store in
\* which its budget is nearly used up
InitRace ==
    /\ now = 1800
    /\ parallel = Cardinality(Reqs)
    /\ callsLeft = MaxCalls
    /\ InitRequests
    /\ \E p \in DOMAIN RATE_LIMITS, short \in Shortfalls :
         /\ world = [methods |-> {"POST"},
                     paths |-> {path \in Paths : PolicyOf(Route(path)) = p},
                     clients |-> {U1},
                     payloads |-> {"ok"}, replies |-> {OkReply}, store |-> {"up"},
                allowed |-> DefaultAllowList]
         /\ kv = WarmStore(p, getClientId(U1), RATE_LIMITS[p].requests - short, now)
         /\ stats = WarmStats(p, getClientId(U1), RATE_LIMITS[p].requests - short, now)

\* overlapping invocations of two routes by two clients, to a store in which one
\* budget of one of them is used up
InitShared ==
    /\ now = 3600
    /\ parallel = Cardinality(Reqs)
    /\ callsLeft = MaxChecks
    /\ InitRequests
    /\ world = [methods |-> {"POST"}, paths |-> {PathSearch, PathVision},
                clients |-> {U1, U10},
                payloads |-> {"ok"}, replies |-> {OkReply}, store |-> {"up"},
                allowed |-> DefaultAllowList]
    /\ \E p \in {"search", "vision"} :
         /\ kv = WarmStore(p, getClientId(U1), RATE_LIMITS[p].requests, now)
         /\ stats = WarmStats(p, getClientId(U1), RATE_LIMITS[p].requests, now)

Init == InitHandler \/ InitRace \/ InitShared

\* the paths of every branch of the routing, and paths next to them
RoutePaths ==
    Paths \cup {PathRoot, <<"/", "api", "/", "n8n">>, PrefixN8n,
                PrefixN8n \o <<"api", "/", "n8n">>, PathSearch \o <<"/">>,
                <<"/", "health", "/", "x">>}

\* one client sends well-formed requests of every method to every path, one
\* invocation at a time, from an empty store
InitRoutes ==
    /\ now = 1800
    /\ parallel = 1
    /\ callsLeft = MaxChecks
    /\ InitRequests
    /\ kv = <<>>
    /\ stats = <<>>
    /\ world = [methods |-> Methods, paths |-> RoutePaths, clients |-> {U1},
                payloads |-> {"ok"}, replies |-> {OkReply}, store |-> {"up"},
                allowed |-> DefaultAllowList]

\* invocations one at a time, all of one client under one policy, from an empty store
InitFresh ==
    /\ now = 3600
    /\ parallel = 1
    /\ InitRequests
    /\ kv = <<>>
    /\ stats = <<>>
    /\ \E p \in DOMAIN RATE_LIMITS, c \in {U1, Client(Null, Null, "https://a.com")} :
         /\ world = [methods |-> {"GET", "POST"},
                     paths |-> {path \in Paths : PolicyOf(Route(path)) = p},
                     clients |-> {c},
                     payloads |-> Payloads, replies |-> AllReplies, store |-> {"up", "down"},
                allowed |-> DefaultAllowList]
         /\ callsLeft = RATE_LIMITS[p].requests + MaxExtra

----------------------------------------------------------------------------
(* The handler. *)

\* fetch from its entry to its first await: the preflight answer, the health and
\* not-found answers, or checkRateLimit up to kv.get
Fetch(r) ==
    /\ pc[r] = "idle"
    /\ \A o \in Reqs : o < r => pc[o] # "idle"
    /\ Cardinality({o \in Reqs : pc[o] # "idle"}) < parallel
    /\ \E method \in world.methods, path \in world.paths, headers \in world.clients :
         LET origin == OrElse(headers.origin, "")
             clientId == getClientId(headers)
             route == Route(path)
             limit == RATE_LIMITS[PolicyOf(route)]
             key == LimiterKey(route, clientId)
         IN /\ req' = [req EXCEPT ![r] = [method |-> method, path |-> path,
                                          origin |-> origin, clientId |-> clientId,
                                          headers |-> headers]]
            /\ IF IsPreflight(method)
               THEN /\ Finish(r, Preflight(origin))
                    /\ UNCHANGED <<windowKey, trace>>
               ELSE IF ~Limited(route)
               THEN /\ Finish(r, Settle(Return(IF route = "health" THEN handleHealth
                                               ELSE NotFound), origin))
                    /\ UNCHANGED <<windowKey, trace>>
               ELSE /\ callsLeft > 0
                    /\ windowKey' = [windowKey EXCEPT ![r] = WindowKeyOf(key, limit, now)]
                    /\ trace' = [trace EXCEPT ![r].index = WindowIndex(limit, now)]
                    /\ pc' = [pc EXCEPT ![r] = "get"]
                    /\ UNCHANGED resp
    /\ UNCHANGED <<now, kv, current, rateCheck, stats, parallel, world, callsLeft>>

StoreOnRejectCounting(store, key, cur, t) ==
    KvPutValue(store, key, String(cur + 1), RATE_LIMITS.search.window, t)

\* checkRateLimit returning {allowed: false} without a put: the store it leaves
StoreOnReject(store, key, cur, t) == store

KvGetLocked(r) ==
    /\ InFlight(windowKey[r]) = {}
    /\ pc[r] = "get"
    /\ LET route == Route(req[r].path)
           limit == RATE_LIMITS[PolicyOf(route)]
           key == windowKey[r]
           cur == ReadCurrent(kv, key, now)
           others == InFlight(key)
           timely == WindowIndex(limit, now) = trace[r].index
       IN \/ \* kv.get rejects: the store is unavailable
             /\ "down" \in world.store
             /\ Finish(r, Settle(Throw("KV GET failed"), req[r].origin))
             /\ trace' = [trace EXCEPT ![r].failed = TRUE]
             /\ UNCHANGED <<kv, current, rateCheck, callsLeft>>
          \/ \* current >= limit.requests: {allowed: false}, and fetch answers 429
             /\ OverLimit(cur, limit)
             /\ kv' = StoreOnReject(kv, key, cur, now)
             /\ current' = [current EXCEPT ![r] = cur]
             /\ rateCheck' = [rateCheck EXCEPT ![r] = Rejected]
             /\ trace' = [trace EXCEPT ![r].reads = @ + 1, ![r].timely = timely]
             /\ callsLeft' = callsLeft - 1
             /\ Finish(r, RateLimitResponse(route, req[r].origin))
          \/ \* below the limit: on to kv.put
             /\ ~OverLimit(cur, limit)
             /\ current' = [current EXCEPT ![r] = cur]
             /\ pc' = [pc EXCEPT ![r] = "put"]
             /\ trace' = [o \in Reqs |->
                    IF o = r
                    THEN [trace[r] EXCEPT !.reads = @ + 1, !.timely = timely,
                                          !.racing = others # {}]
                    ELSE IF o \in others THEN [trace[o] EXCEPT !.racing = TRUE]
                    ELSE trace[o]]
             /\ UNCHANGED <<kv, rateCheck, resp, callsLeft>>
    /\ UNCHANGED <<now, req, windowKey, stats, parallel, world>>

\* the answer of kv.get and checkRateLimit up to its return or its kv.put
KvGet(r) ==
    /\ pc[r] = "get"
    /\ LET route == Route(req[r].path)
           limit == RATE_LIMITS[PolicyOf(route)]
           key == windowKey[r]
           cur == ReadCurrent(kv, key, now)
           others == InFlight(key)
           timely == WindowIndex(limit, now) = trace[r].index
       IN \/ \* kv.get rejects: the store is unavailable
             /\ "down" \in world.store
             /\ Finish(r, Settle(Throw("KV GET failed"), req[r].origin))
             /\ trace' = [trace EXCEPT ![r].failed = TRUE]
             /\ UNCHANGED <<kv, current, rateCheck, callsLeft>>
          \/ \* current >= limit.requests: {allowed: false}, and fetch answers 429
             /\ OverLimit(cur, limit)
             /\ kv' = StoreOnReject(kv, key, cur, now)
             /\ current' = [current EXCEPT ![r] = cur]
             /\ rateCheck' = [rateCheck EXCEPT ![r] = Rejected]
             /\ trace' = [trace EXCEPT ![r].reads = @ + 1, ![r].timely = timely]
             /\ callsLeft' = callsLeft - 1
             /\ Finish(r, RateLimitResponse(route, req[r].origin))
          \/ \* below the limit: on to kv.put
             /\ ~OverLimit(cur, limit)
             /\ current' = [current EXCEPT ![r] = cur]
             /\ pc' = [pc EXCEPT ![r] = "put"]
             /\ trace' = [o \in Reqs |->
                    IF o = r
                    THEN [trace[r] EXCEPT !.reads = @ + 1, !.timely = timely,
                                          !.racing = others # {}]
                    ELSE IF o \in others THEN [trace[o] EXCEPT !.racing = TRUE]
                    ELSE trace[o]]
             /\ UNCHANGED <<kv, rateCheck, resp, callsLeft>>
    /\ UNCHANGED <<now, req, windowKey, stats, parallel, world>>

\* the answer of kv.put, checkRateLimit's {allowed: true}, and the forwarder up to
\* its outbound fetch
KvPut(r) ==
    /\ pc[r] = "put"
    /\ LET route == Route(req[r].path)
           limit == RATE_LIMITS[PolicyOf(route)]
           key == windowKey[r]
           was == StatsOf(BucketOf(r))
       IN \/ \* kv.put rejects: the store is unavailable
             /\ "down" \in world.store
             /\ Finish(r, Settle(Throw("KV PUT failed"), req[r].origin))
             /\ trace' = [trace EXCEPT ![r].failed = TRUE]
             /\ UNCHANGED <<kv, rateCheck, stats, callsLeft>>
          \/ /\ callsLeft' = callsLeft - 1
             /\ kv' = KvPutValue(kv, key, NextValue(current[r]), limit.window, now)
             /\ rateCheck' = [rateCheck EXCEPT ![r] = Admitted(current[r], limit)]
             /\ stats' = SetStats(BucketOf(r),
                    IF trace[r].timely
                    THEN [was EXCEPT !.admitted = @ + 1,
                                     !.raced = @ + (IF trace[r].racing THEN 1 ELSE 0),
                                     !.routes = @ \cup {route}]
                    ELSE [was EXCEPT !.late = @ + 1])
             /\ \E payload \in world.payloads :
                  LET step == Validate(route, req[r].method, payload)
                  IN IF step.kind = "forward"
                     THEN /\ pc' = [pc EXCEPT ![r] = "upstream"]
                          /\ trace' = [trace EXCEPT ![r].writes = @ + 1, ![r].fetches = @ + 1,
                                                    ![r].target = Target(route, req[r].path),
                                                    ![r].parsed = Parsed(route, req[r].method, payload)]
                          /\ UNCHANGED resp
                     ELSE /\ Finish(r, Settle(step, req[r].origin))
                          /\ trace' = [trace EXCEPT ![r].writes = @ + 1,
                                                    ![r].parsed = Parsed(route, req[r].method, payload)]
    /\ UNCHANGED <<now, req, windowKey, current, parallel, world>>

UpstreamRetrying(r) ==
    /\ pc[r] = "upstream"
    /\ \E reply \in world.replies :
         IF reply = NetworkError
         THEN /\ trace' = [trace EXCEPT ![r].fetches = @ + 1]
              /\ UNCHANGED <<pc, resp>>
         ELSE /\ Finish(r, Settle(Forwarded(Route(req[r].path), reply), req[r].origin))
              /\ trace' = [trace EXCEPT ![r].reply = reply]
    /\ UNCHANGED <<now, kv, req, windowKey, current, rateCheck, stats,
                   parallel, world, callsLeft>>

\* the answer of the outbound fetch and the rest of the handler
Upstream(r) ==
    /\ pc[r] = "upstream"
    /\ \E reply \in world.replies :
         /\ Finish(r, Settle(Forwarded(Route(req[r].path), reply), req[r].origin))
         /\ trace' = [trace EXCEPT ![r].reply = reply]
    /\ UNCHANGED <<now, kv, req, windowKey, current, rateCheck, stats,
                   parallel, world, callsLeft>>

\* the runtime sends the response and the invocation is over
Deliver(r) ==
    /\ pc[r] = "done"
    /\ pc' = [pc EXCEPT ![r] = "idle"]
    /\ req' = [req EXCEPT ![r] = NoReq]
    /\ windowKey' = [windowKey EXCEPT ![r] = ""]
    /\ current' = [current EXCEPT ![r] = 0]
    /\ rateCheck' = [rateCheck EXCEPT ![r] = NoCheck]
    /\ resp' = [resp EXCEPT ![r] = NoResp]
    /\ trace' = [trace EXCEPT ![r] = NoTrace]
    /\ UNCHANGED <<now, kv, stats, parallel, world, callsLeft>>

\* time passes
Tick ==
    /\ \E t \in Times : t > now /\ now' = t
    /\ UNCHANGED <<kv, pc, req, windowKey, current, rateCheck, resp, trace, stats,
                   parallel, world, callsLeft>>

Next ==
    \/ \E r \in Reqs : Fetch(r)
    \/ \E r \in Reqs : KvGet(r)
    \/ \E r \in Reqs : KvPut(r)
    \/ \E r \in Reqs : Upstream(r)
    \/ \E r \in Reqs : Deliver(r)
    \/ Tick

Spec == Init /\ [][Next]_vars

\* the runs in which invocations do not overlap
InitSerial == InitFresh \/ InitHandler

SpecSerial == InitSerial /\ [][Next]_vars

\* the identity headers clients send: absent, empty, or with a value
HeaderClients ==
    {Client(u, i, Null) : u \in {Null, "", "u1"}, i \in {Null, "", "ip1", "ip2"}}

\* clients of every combination of identity headers search one at a time, the
\* budget of u1 all but used up and that of anonymous used up
InitClients ==
    /\ now = 1800
    /\ parallel = 1
    /\ callsLeft = MaxChecks
    /\ InitRequests
    /\ world = [methods |-> {"GET"}, paths |-> {PathSearch}, clients |-> HeaderClients,
                payloads |-> {"ok"}, replies |-> {OkReply}, store |-> {"up"},
                allowed |-> DefaultAllowList]
    /\ kv = WarmStore("search", "u1", RATE_LIMITS.search.requests - 1, now)
              @@ WarmStore("search", "anonymous", RATE_LIMITS.search.requests, now)
    /\ stats = WarmStats("search", "u1", RATE_LIMITS.search.requests - 1, now)
              @@ WarmStats("search", "anonymous", RATE_LIMITS.search.requests, now)

\* the runs over every combination of identity headers
SpecClients == InitClients /\ [][Next]_vars

\* one client sends requests of every kind from every origin, one invocation at a
\* time, to a deployment with any of the allow-lists, its search budget used up
InitOrigins ==
    /\ now = 1800
    /\ parallel = 1
    /\ callsLeft = 1
    /\ InitRequests
    /\ kv = WarmStore("search", "u1", RATE_LIMITS.search.requests, now)
    /\ stats = WarmStats("search", "u1", RATE_LIMITS.search.requests, now)
    /\ \E list \in AllowLists :
         world = [methods |-> Methods, paths |-> Paths,
                  clients |-> {Client("u1", Null, o) : o \in Origins \cup {"https://b.com"}},
                  payloads |-> Payloads, replies |-> {OkReply}, store |-> {"up", "down"},
                  allowed |-> list]

\* the runs over every allow-list and origin
SpecOrigins == InitOrigins /\ [][Next]_vars

\* overlapping searches of one client, its search budget all but used up, the
\* store and the upstream answering or failing
InitLive ==
    /\ now = 3600
    /\ parallel = Cardinality(Reqs)
    /\ callsLeft = MaxChecks
    /\ InitRequests
    /\ world = [methods |-> {"GET"}, paths |-> {PathSearch}, clients |-> {U1},
                payloads |-> {"ok"}, replies |-> {OkReply, NetworkError},
                store |-> {"up", "down"}, allowed |-> DefaultAllowList]
    /\ kv = WarmStore("search", "u1", RATE_LIMITS.search.requests - 1, now)
    /\ stats = WarmStats("search", "u1", RATE_LIMITS.search.requests - 1, now)

\* every external call of invocation r returns or fails in the end: the answer of
\* its kv.get, of its kv.put and of its outbound fetch
Responsive(r) ==
    /\ WF_vars(KvGet(r))
    /\ WF_vars(KvPut(r))
    /\ WF_vars(Upstream(r))

\* the runs in which the external calls of the second invocation return or fail,
\* while those of the first may never complete
SpecLive == InitLive /\ [][Next]_vars /\ Responsive(2)

\* the runs over every path
SpecRoutes == InitRoutes /\ [][Next]_vars

\* the requests of the race, one invocation at a time
InitQueued ==
    /\ now = 1800
    /\ parallel = 1
    /\ callsLeft = MaxCalls
    /\ InitRequests
    /\ \E p \in DOMAIN RATE_LIMITS, short \in Shortfalls :
         /\ world = [methods |-> {"POST"},
                     paths |-> {path \in Paths : PolicyOf(Route(path)) = p},
                     clients |-> {U1},
                     payloads |-> {"ok"}, replies |-> {OkReply}, store |-> {"up"},
                     allowed |-> DefaultAllowList]
         /\ kv = WarmStore(p, getClientId(U1), RATE_LIMITS[p].requests - short, now)
         /\ stats = WarmStats(p, getClientId(U1), RATE_LIMITS[p].requests - short, now)

\* the runs in which counters are written: overlapping or not, one client or two
InitCounters == InitRace \/ InitQueued \/ InitShared

SpecCounters == InitCounters /\ [][Next]_vars

----------------------------------------------------------------------------
(* What the claims speak of. *)

Done(r) == pc[r] = "done"

\* the invocation's rate check has been answered, on a read inside its window
Answered(r) == rateCheck[r] # NoCheck /\ trace[r].timely

\* the calls admitted into the invocation's bucket before its own
AdmittedBefore(r) ==
    StatsOf(BucketOf(r)).admitted - (IF rateCheck[r].allowed THEN 1 ELSE 0)

CorsNames == DOMAIN corsHeaders("", ALLOWED_ORIGINS)

HasCors(response) == CorsNames \subseteq DOMAIN response.headers

\* the key a bucket's counter is stored under
KeyOf(bucket) == bucket[1] \o ":" \o bucket[2] \o ":" \o ToString(bucket[3])

\* the store entries a step changes
Changed == {k \in DOMAIN kv \cup DOMAIN kv' : k \notin DOMAIN kv \/ k \notin DOMAIN kv' \/ kv'[k] # kv[k]}

\* the step is the answer to r's rate check, a rejection
Rejects(r) == rateCheck[r] = NoCheck /\ rateCheck'[r] = Rejected

----------------------------------------------------------------------------
(* The claims. *)

\* C1, as stated: when the rate checks of a limiter key do not overlap, of the calls
\* keyed to one window index exactly the first `requests` are admitted and every
\* later one is rejected.
C1_AsStated ==
    /\ parallel = 1
    /\ \A b \in DOMAIN stats : stats[b].admitted + stats[b].late <= LimitOf(b)

\* C1: when the rate checks of a limiter key do not overlap, of the calls keyed to
\* one window index whose store read happens before that window ends, exactly the
\* first `requests` are admitted and every later one is rejected: such a call is
\* admitted exactly when fewer than `requests` were admitted before it, and the
\* admitted call that read count c is the (c+1)-th admitted.
C1_SerialAdmitsFirstRequests ==
    /\ parallel = 1
    /\ \A b \in DOMAIN stats : stats[b].admitted <= LimitOf(b)
    /\ \A r \in Reqs :
         Answered(r) =>
            /\ rateCheck[r].allowed <=> AdmittedBefore(r) < LimitOf(BucketOf(r))
            /\ rateCheck[r].allowed => AdmittedBefore(r) = current[r]

\* a call rejected in a window that began empty and in which `requests` calls were admitted
C1_Witness ==
    \E r \in Reqs :
        /\ Answered(r) /\ rateCheck[r] = Rejected
        /\ trace[r].index = 1
        /\ StatsOf(BucketOf(r)).admitted = LimitOf(BucketOf(r))

\* C2: a checkRateLimit call that returns allowed=false writes nothing: the whole
\* store, every key, value and expiration, is the same after it as before.
C2_RejectionWritesNothing ==
    [][\A r \in Reqs : Rejects(r) => kv' = kv]_vars

\* a rejected call, beside the full counter it left as it was
C2_Witness ==
    \E r \in Reqs :
        /\ rateCheck[r] = Rejected
        /\ windowKey[r] \in DOMAIN kv
        /\ kv[windowKey[r]].value = String(LimitOf(BucketOf(r)))

\* C3, as stated: however the rate checks of a limiter key interleave, the calls
\* admitted under one window index exceed the limit by at most the number of them
\* that stood between their store read and their store write together with another.
C3_AsStated ==
    \A b \in DOMAIN stats :
        stats[b].admitted + stats[b].late <= LimitOf(b) + stats[b].raced

\* C3: however the rate checks of a limiter key interleave, the calls admitted under
\* one window index on a store read before that window ends exceed the limit by at
\* most the number of them that stood between their store read and their store write
\* together with another call.
C3_OvershootWithinRaced ==
    \A b \in DOMAIN stats : stats[b].admitted <= LimitOf(b) + stats[b].raced

\* a window in which more calls than the limit were admitted
C3_Witness ==
    \E b \in DOMAIN stats : stats[b].admitted > LimitOf(b) /\ stats[b].raced > 0

\* C4: a request of a policy, client and window touches only the store entry of that
\* policy, client and window: distinct budgets have distinct keys, a step changes
\* only the entry of the invocation whose put it answers, and a request is rejected
\* only when its own budget was used up by calls of the same policy, client and window.
C4_BudgetsIsolated ==
    [][/\ \A r1, r2 \in Reqs :
            (pc[r1] \in {"get", "put"} /\ pc[r2] \in {"get", "put"}
                /\ windowKey[r1] = windowKey[r2]) => BucketOf(r1) = BucketOf(r2)
       /\ \A k \in Changed :
            \E r \in Reqs : pc[r] = "put" /\ pc'[r] # "put" /\ k = KeyOf(BucketOf(r))
       /\ \A r \in Reqs :
            Rejects(r) =>
                StatsOf(BucketOf(r)).admitted + StatsOf(BucketOf(r)).late
                    >= LimitOf(BucketOf(r))]_vars

\* one client is rejected on a route while another client is admitted on it and the
\* first client is admitted on another route
C4_Witness ==
    \E r1, r2 \in Reqs :
        /\ rateCheck[r1] = Rejected /\ rateCheck[r2].allowed
        /\ BucketOf(r1) # BucketOf(r2)
        /\ \/ req[r1].path = req[r2].path /\ req[r1].clientId # req[r2].clientId
           \/ req[r1].path # req[r2].path /\ req[r1].clientId = req[r2].clientId

SearchRoutes == {"search", "perplexity"}

\* the invocation is a rate-checked request of /api/search or /api/perplexity
OnSearchBudget(r) ==
    pc[r] # "idle" /\ ~IsPreflight(req[r].method) /\ Route(req[r].path) \in SearchRoutes

\* C5, as stated: /api/perplexity and /api/search of one client use the key
\* `search:<clientId>` and the search policy, so that without overlap the calls
\* admitted by both routes under one window index are at most 100.
C5_AsStated ==
    /\ parallel = 1
    /\ \A r \in Reqs :
         OnSearchBudget(r) =>
            windowKey[r] = "search:" \o req[r].clientId \o ":" \o ToString(trace[r].index)
    /\ \A b \in DOMAIN stats :
         b[1] = "search" => stats[b].admitted + stats[b].late <= RATE_LIMITS.search.requests

\* C5: /api/perplexity and /api/search of one client use the key `search:<clientId>`
\* and the search policy, so that without overlap the calls admitted by both routes
\* under one window index, on a store read before that window ends, are at most 100,
\* and once 100 are admitted a request by either route is answered 429.
C5_PerplexitySharesSearchBudget ==
    /\ parallel = 1
    /\ \A r \in Reqs :
         OnSearchBudget(r) =>
            /\ windowKey[r] = "search:" \o req[r].clientId \o ":" \o ToString(trace[r].index)
            /\ (Answered(r) /\ AdmittedBefore(r) = RATE_LIMITS.search.requests) =>
                    rateCheck[r] = Rejected /\ Done(r) /\ resp[r].status = 429
    /\ \A b \in DOMAIN stats :
         b[1] = "search" => stats[b].admitted <= RATE_LIMITS.search.requests

\* /api/perplexity answered 429 in a window that began empty and whose 100 admitted
\* calls all came by /api/search
C5_Witness ==
    \E r \in Reqs :
        /\ Route(req[r].path) = "perplexity" /\ Done(r) /\ resp[r].status = 429
        /\ trace[r].index = 1
        /\ StatsOf(BucketOf(r)).routes = {"search"}
        /\ StatsOf(BucketOf(r)).admitted = RATE_LIMITS.search.requests

\* C6: on every rate-limited route, when the rate check returns not admitted the
\* handler answers 429 with the body {"error":"Rate limit exceeded"} and the CORS
\* headers, and makes no outbound fetch for that request.
C6_RejectionIs429 ==
    \A r \in Reqs :
        rateCheck[r] = Rejected =>
            /\ Limited(Route(req[r].path))
            /\ Done(r)
            /\ resp[r].status = 429
            /\ resp[r].body = "{\"error\":\"Rate limit exceeded\"}"
            /\ HasCors(resp[r])
            /\ trace[r].fetches = 0 /\ trace[r].reply = NoReply

\* a request to /api/n8n/hook answered 429
C6_Witness ==
    \E r \in Reqs :
        /\ rateCheck[r] = Rejected /\ Route(req[r].path) = "n8n"
        /\ resp[r].status = 429

\* the step takes in an OPTIONS request
TakesPreflight(r) == pc[r] = "idle" /\ pc'[r] # "idle" /\ req'[r].method = "OPTIONS"

\* C7: an OPTIONS request is answered, whatever its path, with an empty response
\* that carries only the CORS headers, without a read or write of the counter store
\* and without an outbound fetch: it uses up no rate-limit slot.
C7_PreflightBypasses ==
    [][\A r \in Reqs :
         TakesPreflight(r) =>
            /\ Done(r)'
            /\ resp'[r] = Response(Null, 200, corsHeaders(req'[r].origin, ALLOWED_ORIGINS))
            /\ trace'[r] = NoTrace /\ rateCheck'[r] = NoCheck /\ windowKey'[r] = ""
            /\ kv' = kv /\ stats' = stats /\ callsLeft' = callsLeft]_vars

\* OPTIONS /api/search answered while the client's search budget is used up
C7_Witness ==
    \E r \in Reqs :
        /\ Done(r) /\ req[r].method = "OPTIONS" /\ Route(req[r].path) = "search"
        /\ resp[r].status = 200 /\ DOMAIN resp[r].headers = CorsNames
        /\ LET b == Bucket("search", req[r].clientId, WindowIndex(RATE_LIMITS.search, now))
           IN StatsOf(b).admitted = LimitOf(b)

\* C8: when kv.get or kv.put fails during a rate-limited request, the request is not
\* treated as admitted: no outbound fetch is made and the response is a 500, neither
\* a forwarded result nor a 429.
C8_StoreFailureIs500 ==
    \A r \in Reqs :
        trace[r].failed =>
            /\ Done(r)
            /\ resp[r].status = 500
            /\ ~rateCheck[r].allowed
            /\ trace[r].fetches = 0 /\ trace[r].reply = NoReply

\* a request whose kv.put failed after its kv.get had shown it below the limit
C8_Witness ==
    \E r \in Reqs :
        /\ trace[r].failed /\ trace[r].reads = 1 /\ trace[r].writes = 0
        /\ resp[r].status = 500

\* C9: every response the handler returns, on every path through it, carries the
\* CORS headers, Access-Control-Allow-Origin among them.
C9_EveryResponseHasCors ==
    \A r \in Reqs : Done(r) => HasCors(resp[r]) /\ ACAO \in DOMAIN resp[r].headers

\* a 405 of a forwarder, returned with the CORS headers
C9_Witness ==
    \E r \in Reqs : Done(r) /\ resp[r].status = 405 /\ ACAO \in DOMAIN resp[r].headers

\* the upstream answered r's outbound fetch
Replied(r) == Done(r) /\ trace[r].reply # NoReply /\ trace[r].reply # NetworkError

\* the upstream's answer is a failure or malformed: its status is not 2xx, or it has
\* a body that is no JSON
FailedOrMalformed(reply) ==
    \/ reply.status \notin 200..299
    \/ reply.text # "" /\ Reserialize(reply.text) = "SyntaxError"

\* C10: on every forwarding route a failed or malformed upstream response is passed
\* through with the upstream's status: a non-2xx upstream status is the response's
\* status, and an upstream body that is no JSON does not become a status of the
\* gateway's own.
C10_UpstreamPassedThrough ==
    \A r \in Reqs :
        (Replied(r) /\ FailedOrMalformed(trace[r].reply)) =>
            resp[r].status = trace[r].reply.status

\* /api/search answered 200 although its upstream answered 500
C10_Witness ==
    \E r \in Reqs :
        /\ Replied(r) /\ Route(req[r].path) = "search"
        /\ trace[r].reply.status = 500 /\ resp[r].status = 200

\* the step is r's kv.put taking effect
Writes(r) == pc[r] = "put" /\ trace'[r].writes = trace[r].writes + 1

\* the end of the window an invocation's key counts: (W+1)*S
WindowEnd(r) == (trace[r].index + 1) * RATE_LIMITS[PolicyOf(Route(req[r].path))].window

\* C11: every counter entry expires no later than the end of the window it counts:
\* the entry a call writes under window index W of a policy with window S has an
\* expiry of at most (W+1)*S, whenever inside the window the write happens.
C11_ExpiryWithinWindow ==
    [][\A r \in Reqs :
         Writes(r) => kv'[windowKey[r]].expiration <= WindowEnd(r)]_vars

\* an admitted call of window 0 whose entry outlives the window
C11_Witness ==
    \E r \in Reqs :
        /\ rateCheck[r].allowed /\ trace[r].timely /\ trace[r].index = 0
        /\ kv[windowKey[r]].expiration > WindowEnd(r)

\* the invocation is past the preflight branch
Routed(r) == pc[r] # "idle" /\ ~IsPreflight(req[r].method)

\* r was answered by a responder that needs no quota, with this response
AnsweredLocally(r, response) ==
    /\ Done(r) /\ resp[r] = Decorate(response, req[r].origin)
    /\ trace[r] = NoTrace /\ windowKey[r] = ""

\* r took the branch of a forwarder: its rate check is keyed `<tag>:<clientId>` and
\* its outbound fetch, when it makes one, goes to url
TookForwarder(r, tag, url) ==
    /\ windowKey[r] = tag \o ":" \o req[r].clientId \o ":" \o ToString(trace[r].index)
    /\ trace[r].fetches = 1 => trace[r].target = url
    /\ Done(r) => resp[r] # Decorate(NotFound, req[r].origin)
                  /\ resp[r] # Decorate(handleHealth, req[r].origin)

\* C12: the route of a request is a function of its path alone, whatever its method,
\* in first-match order: /health or / is Health, /api/search Search, /api/vision
\* Vision, /api/perplexity Perplexity, a path starting with /api/n8n/ is forwarded
\* to n8n with /api/n8n replaced by /webhook and the rest unchanged, and every
\* other path, /api/n8n among them, is answered 404.
C12_RouteByPathOnly ==
    \A r \in Reqs :
        Routed(r) =>
            LET path == req[r].path
            IN CASE path = PathHealth \/ path = PathRoot -> AnsweredLocally(r, handleHealth)
                 [] path = PathSearch -> TookForwarder(r, "search", Target("search", path))
                 [] path = PathVision -> TookForwarder(r, "vision", Target("vision", path))
                 [] path = PathPerplexity ->
                        TookForwarder(r, "search", Target("perplexity", path))
                 [] Len(path) >= 5 /\ SubSeq(path, 1, 5) = <<"/", "api", "/", "n8n", "/">> ->
                        TookForwarder(r, "n8n",
                            N8N_BASE_URL \o <<"/", "webhook", "/">> \o SubSeq(path, 6, Len(path)))
                 [] OTHER -> AnsweredLocally(r, NotFound)

\* a GET of /api/n8n/api/n8n forwarded to /webhook/api/n8n
C12_Witness ==
    \E r \in Reqs :
        /\ req[r].method = "GET" /\ req[r].path = PrefixN8n \o <<"api", "/", "n8n">>
        /\ trace[r].fetches = 1
        /\ trace[r].target = N8N_BASE_URL \o <<"/", "webhook", "/", "api", "/", "n8n">>

\* the limiter key and the budget of an invocation whose client identity is id
DrawsOn(r, id) ==
    LET policy == PolicyOf(Route(req[r].path))
        bucket == Bucket(policy, id, trace[r].index)
    IN /\ windowKey[r] = policy \o ":" \o id \o ":" \o ToString(trace[r].index)
       /\ Answered(r) =>
            /\ current[r] = StatsOf(bucket).admitted - (IF rateCheck[r].allowed THEN 1 ELSE 0)
            /\ rateCheck[r].allowed <=> current[r] < LimitOf(bucket)

\* the invocation is in or past its rate check
Checked(r) == Routed(r) /\ Limited(Route(req[r].path))

\* C13, as stated: the client identity in the limiter key is the X-User-ID value
\* when that header is present, otherwise the CF-Connecting-IP value when that
\* header is present, otherwise "anonymous".
C13_AsStated ==
    \A r \in Reqs :
        Checked(r) =>
            LET h == req[r].headers
            IN DrawsOn(r, IF h.userId # Null THEN h.userId
                          ELSE IF h.ip # Null THEN h.ip
                          ELSE "anonymous")

\* C13: the client identity in the limiter key is the X-User-ID value when that
\* header is present and not empty, otherwise the CF-Connecting-IP value when that
\* header is present and not empty, otherwise "anonymous"; it is computed from each
\* request's own headers, so that requests with one X-User-ID draw on one budget
\* whatever their IPs, and requests with neither header on the budget of "anonymous".
C13_ClientIdPrecedence ==
    \A r \in Reqs :
        Checked(r) =>
            LET h == req[r].headers
            IN DrawsOn(r, IF h.userId \notin {Null, ""} THEN h.userId
                          ELSE IF h.ip \notin {Null, ""} THEN h.ip
                          ELSE "anonymous")

\* a request of u1 from ip2 rejected once the budget of u1 is used up
C13_Witness ==
    \E r \in Reqs :
        /\ req[r].headers.userId = "u1" /\ req[r].headers.ip = "ip2"
        /\ Answered(r) /\ rateCheck[r] = Rejected
        /\ current[r] = RATE_LIMITS.search.requests

\* the origin is one the deployment's allow-list lets in
AllowListed(origin) ==
    LET entries == world.allowed.entries
    IN \E i \in 1..Len(entries) : entries[i] = "*" \/ entries[i] = origin

\* C14: the Access-Control-Allow-Origin of every response is the request's Origin
\* when that origin is in the configured comma-separated allow-list or the list
\* contains `*`, and the first configured entry otherwise; an Origin that is not
\* allow-listed, no wildcard being configured, is echoed in no header of a response.
C14_AllowOriginResolved ==
    \A r \in Reqs :
        Done(r) =>
            LET origin == IF req[r].headers.origin = Null THEN "" ELSE req[r].headers.origin
                headers == resp[r].headers
            IN /\ ACAO \in DOMAIN headers
               /\ headers[ACAO] = IF AllowListed(origin) THEN origin
                                  ELSE world.allowed.entries[1]
               /\ ~AllowListed(origin) => \A name \in DOMAIN headers : headers[name] # origin

\* a 500 to a request from https://evil.com, answered with the first entry of the
\* list " https://b.com ,https://a.com"
C14_Witness ==
    \E r \in Reqs :
        /\ Done(r) /\ req[r].headers.origin = "https://evil.com"
        /\ resp[r].status = 500
        /\ world.allowed.entries[1] = "https://b.com"
        /\ resp[r].headers[ACAO] = "https://b.com"

\* a failure was raised in handling r: a store call threw, request.json() met a body
\* that is no JSON, the outbound fetch threw, response.json() met a body that is
\* no JSON, or new Response refused the upstream's status
FailureRaised(r) ==
    \/ trace[r].failed
    \/ trace[r].parsed = "garbage"
    \/ trace[r].reply = NetworkError
    \/ /\ trace[r].reply # NoReply
       /\ IF Route(req[r].path) = "n8n" THEN NullBodyStatus(trace[r].reply.status)
          ELSE Reserialize(trace[r].reply.text) = "SyntaxError"

\* the messages of the failures
ErrorMessages ==
    {"KV GET failed", "KV PUT failed", "Unexpected token", "fetch failed",
     "Response with null body status cannot have body"}

\* C15: a failure raised while a request is rate-checked, forwarded or decorated (a
\* throwing store call, a throwing upstream fetch, an unparsable request body or
\* upstream JSON body) ends the request with a status-500 JSON error response that
\* carries the CORS headers: the failure does not leave the handler and gives no
\* other response.
C15_FailuresBecome500 ==
    \A r \in Reqs :
        FailureRaised(r) =>
            /\ Done(r)
            /\ resp[r].status = 500
            /\ \E m \in ErrorMessages :
                 resp[r].body = "{\"error\":\"Internal server error\",\"message\":\"" \o m \o "\"}"
            /\ HasCors(resp[r])
            /\ resp[r].headers[ContentType] = "application/json"

\* a POST to /api/vision whose body is no JSON, answered 500 after its admission
C15_Witness ==
    \E r \in Reqs :
        /\ Route(req[r].path) = "vision" /\ trace[r].parsed = "garbage"
        /\ rateCheck[r].allowed /\ resp[r].status = 500 /\ HasCors(resp[r])

\* the path is / or /health, or one that no route matches
NeedsNoQuota(path) ==
    \/ path = PathHealth \/ path = PathRoot
    \/ /\ path \notin {PathSearch, PathVision, PathPerplexity}
       /\ ~StartsWith(path, PrefixN8n)

\* the step takes in a request, not a preflight, for such a path
TakesUnlimited(r) ==
    /\ pc[r] = "idle" /\ pc'[r] # "idle"
    /\ req'[r].method # "OPTIONS" /\ NeedsNoQuota(req'[r].path)

\* C16: a request classified as Health (/, /health) or NotFound (any unmatched path)
\* is answered without a read or write of the counter store, and never with 429,
\* however many are sent and whatever the counters hold.
C16_UnlimitedRoutesSkipStore ==
    [][\A r \in Reqs :
         TakesUnlimited(r) =>
            /\ Done(r)' /\ resp'[r].status \in {200, 404}
            /\ trace'[r] = NoTrace /\ rateCheck'[r] = NoCheck /\ windowKey'[r] = ""
            /\ kv' = kv /\ stats' = stats /\ callsLeft' = callsLeft]_vars

\* / answered 200 to a client one of whose budgets is used up and who has no
\* rate check left
C16_Witness ==
    \E r \in Reqs :
        /\ Done(r) /\ req[r].method = "GET" /\ req[r].path = PathRoot
        /\ resp[r].status = 200 /\ trace[r] = NoTrace
        /\ callsLeft = 0
        /\ \E b \in DOMAIN stats : b[2] = req[r].clientId /\ stats[b].admitted = LimitOf(b)

\* the step ends r with the 400 or 405 of its forwarder's own validation
ForwarderRefuses(r) ==
    /\ pc[r] # "done" /\ pc'[r] = "done"
    /\ resp'[r].status \in {400, 405} /\ trace'[r].fetches = 0

\* C17: the rate check comes before the forwarder's validation: a request on a
\* rate-limited route that its forwarder refuses (400 for a missing q, image or
\* query, 405 for a method other than POST on /api/vision or /api/perplexity) has
\* been admitted and has incremented the counter, so that invalid requests use up
\* slots, and a request of a client whose budget is used up is answered 429, not
\* 400 or 405.
C17_RateCheckBeforeValidation ==
    [][\A r \in Reqs :
         /\ ForwarderRefuses(r) =>
               /\ Limited(Route(req[r].path))
               /\ rateCheck'[r] = Admitted(current[r], RATE_LIMITS[PolicyOf(Route(req[r].path))])
               /\ trace'[r].reads = 1 /\ trace'[r].writes = 1
               /\ windowKey[r] \in DOMAIN kv'
               /\ kv'[windowKey[r]].value = String(current[r] + 1)
               /\ callsLeft' = callsLeft - 1
         /\ Rejects(r) =>
               /\ resp'[r].status = 429
               /\ trace'[r].writes = 0 /\ trace'[r].parsed = ""]_vars

\* a GET of /api/vision answered 405 after taking the last of the 50 slots of a
\* window that began empty
C17_Witness ==
    \E r \in Reqs :
        /\ Done(r) /\ Route(req[r].path) = "vision" /\ req[r].method = "GET"
        /\ resp[r].status = 405
        /\ rateCheck[r] = [allowed |-> TRUE, remaining |-> 0]
        /\ trace[r].index = 1
        /\ kv[windowKey[r]].value = String(RATE_LIMITS.vision.requests)

\* the step takes r into its rate check
TakesChecked(r) == pc[r] = "idle" /\ pc'[r] = "get"

\* the step is the answer to r's rate check
AnswersCheck(r) == rateCheck[r] = NoCheck /\ rateCheck'[r] # NoCheck

\* the window indexes the clock of the model reaches
Windows == 0..2

\* C18: the window index of a rate check is the number W of the window-second
\* bucket its time lies in, W*S <= now < (W+1)*S, the same for two times of one
\* bucket and another across a boundary; so the first request of a client in window
\* W+1 reads a fresh key, its count taken as 0, and is admitted, whether the entry
\* of window W, at its limit or not, has expired or not.
C18_FreshWindowAdmits ==
    [][\A r \in Reqs :
         LET policy == PolicyOf(Route(req'[r].path))
             limit == RATE_LIMITS[policy]
         IN /\ TakesChecked(r) =>
                  \E W \in Windows :
                     /\ W * limit.window <= now /\ now < (W + 1) * limit.window
                     /\ trace'[r].index = W
                     /\ windowKey'[r] = policy \o ":" \o req'[r].clientId \o ":" \o ToString(W)
            /\ (AnswersCheck(r) /\ trace'[r].timely /\ StatsOf(BucketOf(r)).admitted = 0) =>
                  /\ rateCheck'[r] = [allowed |-> TRUE, remaining |-> limit.requests - 1]
                  /\ current'[r] = 0
                  /\ kv'[windowKey[r]].value = <<"1">>]_vars

\* a client rejected in window 0 and, the full entry of window 0 not yet expired,
\* admitted by its first request in window 1
C18_Witness ==
    \E r, o \in Reqs :
        /\ req[o].clientId = req[r].clientId
        /\ PolicyOf(Route(req[o].path)) = PolicyOf(Route(req[r].path))
        /\ rateCheck[o] = Rejected /\ trace[o].timely /\ trace[o].index = 0
        /\ rateCheck[r].allowed /\ trace[r].timely /\ trace[r].index = 1
        /\ current[r] = 0
        /\ windowKey[o] \in DOMAIN kv /\ kv[windowKey[o]].expiration > now
        /\ kv[windowKey[o]].value = String(LimitOf(BucketOf(o)))

\* what an invocation has done so far is one pass: at most one store read, then at
\* most one store write, then at most one outbound fetch, the fetch only after the
\* write that admitted the request, and a response exactly when it is done
SinglePass(r) ==
    /\ trace[r].reads \in {0, 1} /\ trace[r].writes \in {0, 1} /\ trace[r].fetches \in {0, 1}
    /\ trace[r].writes <= trace[r].reads
    /\ trace[r].fetches <= trace[r].writes
    /\ trace[r].fetches = 1 =>
          /\ rateCheck[r].allowed
          /\ windowKey[r] \in DOMAIN kv
    /\ trace[r].reply # NoReply => trace[r].fetches = 1
    /\ Done(r) <=> resp[r] # NoResp

\* a step of an invocation moves it forward: its calls are made in the order read,
\* write, fetch, none is repeated, and its response, once produced, is its last act
MovesForward(r) ==
    /\ trace'[r].reads > trace[r].reads => trace[r].writes = 0 /\ trace[r].fetches = 0
    /\ trace'[r].writes > trace[r].writes => trace[r].reads = 1 /\ trace[r].fetches = 0
    /\ trace'[r].fetches > trace[r].fetches => trace'[r].writes = 1
    /\ (pc[r] \notin {"idle", "done"} /\ pc'[r] # "done") =>
          \/ pc[r] = "get" /\ pc'[r] = "put"
          \/ pc[r] = "put" /\ pc'[r] = "upstream"
          \/ pc'[r] = pc[r] /\ trace'[r].reads = trace[r].reads
               /\ trace'[r].writes = trace[r].writes /\ trace'[r].fetches = trace[r].fetches
    /\ Done(r) =>
          \/ pc'[r] = "idle"
          \/ Done(r)' /\ resp'[r] = resp[r] /\ trace'[r] = trace[r]

\* C19: each request is handled in a single pass without retries: it performs at
\* most one counter-store read, at most one counter-store write and at most one
\* upstream call, in that order, and produces exactly one response; an upstream
\* call is made only after a store write that admitted the request.
C19_SinglePass ==
    [][\A r \in Reqs : MovesForward(r) /\ SinglePass(r)']_vars

\* a request answered after one read, one write and one upstream call that failed
C19_Witness ==
    \E r \in Reqs :
        /\ Done(r) /\ trace[r].reads = 1 /\ trace[r].writes = 1 /\ trace[r].fetches = 1
        /\ trace[r].reply = NetworkError /\ resp[r].status = 500

\* the invocation has taken in a request and has not answered it yet
Pending(r) == pc[r] \in {"get", "put", "upstream"}

\* C20: a request receives a response in the end provided each counter-store call
\* and each upstream call it issues returns or fails in the end: only an external
\* call that never completes keeps its handling pending; and a request stalled so
\* does not hold up another, which is answered while the first stays pending.
C20_EveryRequestAnswered ==
    /\ Responsive(1) => (Pending(1) ~> Done(1))
    /\ Pending(2) ~> Done(2)

\* the second request answered by its upstream while the first, which called
\* checkRateLimit before it, still waits between its kv.get and its kv.put
C20_Witness ==
    /\ pc[1] = "put"
    /\ Done(2) /\ trace[2].fetches = 1 /\ resp[2].status = 200
    /\ windowKey[1] = windowKey[2]

\* the count a store entry holds: the integer its value is the decimal form of,
\* -1 when the value is no such form
CountOf(entry) ==
    IF Len(entry.value) = 0 \/ ~IsDigit(entry.value[1]) THEN -1
    ELSE LET n == parseInt(entry.value)
         IN IF String(n) = entry.value THEN n ELSE -1

\* the budgets whose counter is stored under a key
BucketsAt(key) == {b \in DOMAIN stats : KeyOf(b) = key}

\* C21: however the requests interleave, every entry the limiter has written is
\* stored under the key of a budget it admitted a call into, and its value is the
\* decimal form of an integer from 1 to that policy's `requests` limit; the stored
\* count stays within the limit also where more calls than the limit were admitted.
C21_StoredCountWithinLimit ==
    \A key \in DOMAIN kv :
        LET count == CountOf(kv[key])
            buckets == BucketsAt(key)
        IN /\ buckets # {}
           /\ count >= 1
           /\ \A b \in buckets : count <= LimitOf(b)

\* more calls than the limit were admitted into a window on reads inside it, and
\* the counter of that window, still live, holds the limit
C21_Witness ==
    \E b \in DOMAIN stats :
        /\ stats[b].admitted > LimitOf(b)
        /\ KeyOf(b) \in DOMAIN kv
        /\ kv[KeyOf(b)].expiration > now
        /\ CountOf(kv[KeyOf(b)]) = LimitOf(b)

\* the count stored for a budget: that of its entry, 0 while it has none
StoredCount(b) ==
    LET key == KeyOf(b)
    IN IF key \in DOMAIN kv THEN CountOf(kv[key]) ELSE 0

\* the calls admitted so far under a budget's key and window index
AdmittedInto(b) == stats[b].admitted + stats[b].late

\* invocation r has put its count over the higher count invocation o had put
\* under the same key before it
Lowered(r, o) ==
    /\ r # o
    /\ trace[r].writes = 1 /\ trace[o].writes = 1
    /\ windowKey[r] = windowKey[o]
    /\ current[r] < current[o]
    /\ kv[windowKey[r]].value = NextValue(current[r])

====
